---- MODULE Spec2Model ----
(***************************************************************************)
(* Model of sis.batch_installer.BatchInstaller: one BatchInstaller, the    *)
(* thread that calls install_all, the ThreadPoolExecutor workers that run  *)
(* _install_package, and a second thread that may call cancel().           *)
(*                                                                         *)
(* Package ids are the integers 1..n in input order (ids are unique, as    *)
(* the PackageDescriptor data model requires); a dependency id greater     *)
(* than n names a package that has no task in the session.                 *)
(*                                                                         *)
(* Atomicity: a step of the model is a stretch of code between two writes  *)
(* another thread can see (task.status, the stop event, a future's state). *)
(***************************************************************************)
EXTENDS Integers, Sequences, FiniteSets, TLC

\* ------------------------------------------------------------------ bounds
MaxPkgs == 2        \* Spec: longest package list passed to install_all
MaxDeps == 1        \* Spec: longest dependency list of one package
MaxSortPkgs == 3    \* SpecSort: longest package list passed to install_all
MaxConfigPkgs == 2  \* SpecConfig: longest package list written to a config file
MaxPathLen == 2     \* SpecPath: longest path string, in letters
MaxAppends == 2     \* SpecPath: number of append_to_path calls
MaxGateDeps == 2    \* SpecGate: longest dependency list of one package
MaxCalls == 2       \* SpecReuse: number of install_all calls on one BatchInstaller
MaxHandleCalls == 5 \* SpecRecovery: number of handle_error calls on one InstallationError

\* ------------------------------------------------------- program constants
MAX_WORKERS == 4
RETRY_COUNT == 3
DEFAULT_MAX_RETRIES == 3

PENDING == "pending"
DOWNLOADING == "downloading"
INSTALLING == "installing"
SUCCESS == "success"
FAILED == "failed"
SKIPPED == "skipped"
CANCELLED == "cancelled"
InstallStatus == {PENDING, DOWNLOADING, INSTALLING, SUCCESS, FAILED, SKIPPED, CANCELLED}

\* InstallPriority: CRITICAL = 0, HIGH = 1, NORMAL = 2, LOW = 3
InstallPriority == 0..3
CRITICAL_PRIORITY == 0
HIGH_PRIORITY == 1
NORMAL_PRIORITY == 2
LOW_PRIORITY == 3

\* sys.platform: the two platforms with an adapter, and one without
Platforms == {"win32", "darwin", "linux"}

VARIABLES
    requested,        \* the max_workers argument of the constructor
    max_workers,      \* BatchInstaller.max_workers
    platform,         \* sys.platform
    progress_callback,\* "none" | "set": BatchInstaller._progress_callback
    stop_event,       \* BatchInstaller._stop_event
    session,          \* BatchInstaller._session: NoSession or the counters
    tasks,            \* session.tasks: id -> InstallTask
    packages,         \* the list passed to install_all
    parallel,         \* install_all's argument
    stop_on_error,    \* install_all's argument
    sorted_packages,  \* install_all's local
    pc,               \* where the calling thread is
    idx,              \* index of the dispatch / sequential loop
    completed_count,  \* locals of _parallel_install / _sequential_install
    failed_count,
    skipped_count,
    futures,          \* _parallel_install's dict: the ids submitted to the pool
    step,             \* id -> state of its future / position in _install_package
    collected,        \* futures as_completed has yielded
    cancel_called,    \* history: cancel() was called
    in_flight,        \* history: the ids whose status was INSTALLING when cancel() was called
    observed,         \* history: a loop has read the stop event as set
    error_stop,       \* history: stop_on_error ended a loop
    raises,           \* history: id -> what raised while the task ran
    outcome,          \* history: id -> what the adapter returned
    hot_refreshes,    \* history: calls of hot_refresh_environment
    order,            \* history: ids in the order the loop took them
    descriptors,      \* the list passed to AutomationScript.generate_config_file
    config_file,      \* the JSON document at output_path
    loaded,           \* what AutomationScript.load_config_file returned
    config_again,     \* the JSON document generate_config_file writes for the loaded list
    user_path,        \* the entries of PATH in the scope append_to_path works on
    existing_dirs,    \* the directories that exist, as the file system spells them
    appended,         \* history: the append_to_path calls made, with PATH before each
    reported,         \* history: id -> the status last passed to the progress callback
    first_run,        \* history: the result of install_all on an earlier BatchInstaller
    appending,        \* worker -> its append_to_path call: the path, and the PATH it read
    error,            \* the InstallationError passed to ErrorManager.handle_error
    error_handlers,   \* ErrorManager._error_handlers has a handler for the error's category
    handled           \* history: the handle_error calls made on the error

vars == <<requested, max_workers, platform, progress_callback, stop_event, session, tasks,
          packages, parallel, stop_on_error, sorted_packages, pc, idx,
          completed_count, failed_count, skipped_count, futures, step, collected,
          cancel_called, in_flight, observed, error_stop, raises, outcome, hot_refreshes,
          order, descriptors, config_file, loaded, config_again, user_path, existing_dirs,
          appended, reported, first_run, appending, error, error_handlers, handled>>

\* the variables of the config file round trip
config == <<descriptors, config_file, loaded, config_again>>

\* the variables of EnvironmentManager.append_to_path
env == <<user_path, existing_dirs, appended>>

\* the variables no step of install_all writes
side == <<first_run, appending, error, error_handlers, handled>>

\* --------------------------------------------------------------- data model
Min(a, b) == IF a <= b THEN a ELSE b

SeqsUpTo(S, n) == UNION {[1..k -> S] : k \in 0..n}

\* dependency ids: the ids of the longest list, and one more that is never a package
DepIds == 1..(MaxPkgs + 1)
DepLists == SeqsUpTo(DepIds, MaxDeps)

\* SoftwarePackage: the fields the orchestrator reads
SoftwarePackage(i, prio, deps) == [id |-> i, priority |-> prio, dependencies |-> deps]

\* the package lists of at most n packages with priorities and dependency
\* lists drawn from the given sets
ListsOf(max, priorities, deplists) ==
    UNION {{[i \in 1..n |-> SoftwarePackage(i, pr[i], dp[i])] :
               pr \in [1..n -> priorities], dp \in [1..n -> deplists]} :
           n \in 0..max}

PackageLists == ListsOf(MaxPkgs, {CRITICAL_PRIORITY, NORMAL_PRIORITY}, DepLists)

\* InstallTask(package=pkg): the dataclass defaults
NoError == [kind |-> "none", ids |-> <<>>]
InstallTask(pkg) ==
    [package |-> pkg, status |-> PENDING, progress |-> 0, start_time |-> FALSE,
     end_time |-> FALSE, error_message |-> NoError, retry_count |-> 0]

NoSession == [exists |-> FALSE]
\* mutant: total_packages is one more than the number of packages
InstallSession_one_more(n) ==
    [exists |-> TRUE, total_packages |-> n + 1, completed |-> 0, failed |-> 0, skipped |-> 0]

InstallSession(n) ==
    [exists |-> TRUE, total_packages |-> n, completed |-> 0, failed |-> 0, skipped |-> 0]

Ids == DOMAIN tasks

\* the pool sizes asked of the constructor: below the cap and above it
Requests == {1, MAX_WORKERS + 1}

\* BatchInstaller.__init__: self.max_workers = min(max_workers, self.MAX_WORKERS)
init_max_workers(m) == Min(m, MAX_WORKERS)

\* the state after construction, for constructor arguments and platforms drawn
\* from the given sets
InitOn(requests, platforms) ==
    /\ requested \in requests
    /\ max_workers = init_max_workers(requested)
    /\ platform \in platforms
    /\ progress_callback = "none"
    /\ stop_event = FALSE
    /\ session = NoSession
    /\ tasks = <<>>
    /\ packages = <<>>
    /\ parallel = TRUE
    /\ stop_on_error = FALSE
    /\ sorted_packages = <<>>
    /\ pc = "idle"
    /\ idx = 1
    /\ completed_count = 0
    /\ failed_count = 0
    /\ skipped_count = 0
    /\ futures = {}
    /\ step = <<>>
    /\ collected = {}
    /\ cancel_called = FALSE
    /\ in_flight = {}
    /\ observed = FALSE
    /\ error_stop = FALSE
    /\ raises = <<>>
    /\ outcome = <<>>
    /\ hot_refreshes = 0
    /\ order = <<>>
    /\ reported = <<>>

\* no config file has been written or read
NoFile == [written |-> FALSE]
NotLoaded == [done |-> FALSE]
NoConfig ==
    descriptors = <<>> /\ config_file = NoFile /\ loaded = NotLoaded /\ config_again = NoFile

\* append_to_path is not called
NoEnv == user_path = <<>> /\ existing_dirs = {} /\ appended = <<>>

\* InstallationError(...): the dataclass defaults retry_count = 0, max_retries = 3
InstallationError(recoverable) ==
    [recoverable |-> recoverable, retry_count |-> 0, max_retries |-> DEFAULT_MAX_RETRIES]

\* no earlier run is recorded
NoRun == [done |-> FALSE]

\* no second installer, no concurrent append_to_path, no handle_error call
NoSide ==
    /\ first_run = NoRun
    /\ appending = <<>>
    /\ error = InstallationError(TRUE)
    /\ error_handlers = FALSE
    /\ handled = <<>>

\* ------------------------------------------------------------ pure functions
\* mutant: an element goes in front of the elements of its own key
InsertByKey_unstable(s, p) ==
    LET k == Cardinality({j \in 1..Len(s) : s[j].priority < p.priority})
    IN  SubSeq(s, 1, k) \o <<p>> \o SubSeq(s, k + 1, Len(s))

\* sorted(packages, key=priority.value): Python's sort is stable; insertion of
\* each element behind every element whose key is <= its own
InsertByKey(s, p) ==
    LET k == Cardinality({j \in 1..Len(s) : s[j].priority <= p.priority})
    IN  SubSeq(s, 1, k) \o <<p>> \o SubSeq(s, k + 1, Len(s))

RECURSIVE SortPrefix(_, _)
SortPrefix(pk, n) ==
    IF n = 0 THEN <<>> ELSE InsertByKey(SortPrefix(pk, n - 1), pk[n])

sort_by_priority(pk) == SortPrefix(pk, Len(pk))

\* mutant: only a FAILED dependency counts as missing
IsMissing_only_failed(dep_id) ==
    /\ session.exists
    /\ dep_id \in DOMAIN tasks
    /\ tasks[dep_id].status = FAILED

\* _check_dependencies: a dependency is missing when it has a task in the
\* session and that task is not SUCCESS
IsMissing(dep_id) ==
    /\ session.exists
    /\ dep_id \in DOMAIN tasks
    /\ tasks[dep_id].status # SUCCESS

RECURSIVE MissingOf(_)
MissingOf(deps) ==
    IF deps = <<>> THEN <<>>
    ELSE (IF IsMissing(Head(deps)) THEN <<Head(deps)>> ELSE <<>>) \o MissingOf(Tail(deps))

\* mutant: the gate lets every package through
check_dependencies_open(package) == [deps_ok |-> TRUE, missing_deps |-> <<>>]

check_dependencies(package) ==
    LET missing == MissingOf(package.dependencies)
    IN  [deps_ok |-> Len(missing) = 0, missing_deps |-> missing]

\* _update_progress: the task's status and progress (the callback call is
\* chosen by the action that uses it)
update_progress(t, status, progress) ==
    IF session.exists /\ t.package.id \in DOMAIN tasks
    THEN [t EXCEPT !.status = status, !.progress = progress]
    ELSE t

\* the status last passed to the progress callback, after _update_progress
\* called it (when one is set) with the given status
Report(old, status) == IF progress_callback = "set" THEN status ELSE old

\* what a call of the progress callback can do
CallbackResults == IF progress_callback = "set" THEN {"ok", "raise"} ELSE {"ok"}

\* futures the pool is executing / has finished
Running == {"try", "post", "handler"}
Done == {"returned", "raised", "cancelled"}

RunningIds == {i \in DOMAIN step : step[i] \in Running}

\* the work queue of the ThreadPoolExecutor is FIFO: submissions are made in
\* the order of sorted_packages
QueueHead(i) ==
    /\ step[i] = "queued"
    /\ \A j \in 1..Len(sorted_packages) :
          (sorted_packages[j].id = i) =>
             \A k \in 1..(j - 1) : step[sorted_packages[k].id] # "queued"

\* executor.shutdown(wait=False, cancel_futures=True): queued futures are cancelled
CancelFutures(st) == [i \in DOMAIN st |-> IF st[i] = "queued" THEN "cancelled" ELSE st[i]]

\* ------------------------------------------------------------------ actions
\* set_progress_callback(callback)
SetProgressCallback ==
    /\ pc = "idle"
    /\ progress_callback = "none"
    /\ progress_callback' = "set"
    /\ UNCHANGED <<requested, max_workers, platform, stop_event, session, tasks, packages,
                   parallel, stop_on_error, sorted_packages, pc, idx,
                   completed_count, failed_count, skipped_count, futures, step,
                   collected, cancel_called, in_flight, observed, outcome, hot_refreshes,
                   order, error_stop, raises, config, env>>
    /\ UNCHANGED <<reported, side>>

\* cancel(), from any thread, before or during the run
Cancel ==
    /\ pc \notin {"returned", "raised"}
    /\ ~cancel_called
    /\ stop_event' = TRUE
    /\ cancel_called' = TRUE
    /\ in_flight' = {i \in DOMAIN tasks : tasks[i].status = INSTALLING}
    /\ UNCHANGED <<requested, max_workers, platform, progress_callback, session, tasks, packages,
                   parallel, stop_on_error, sorted_packages, pc, idx,
                   completed_count, failed_count, skipped_count, futures, step,
                   collected, observed, outcome, hot_refreshes, order, error_stop,
                   raises, config, env>>
    /\ UNCHANGED <<reported, side>>

\* create_session(packages): one task per package, keyed by id
create_session_tasks(pk) == [i \in {pk[j].id : j \in 1..Len(pk)} |->
                                InstallTask(CHOOSE p \in {pk[j] : j \in 1..Len(pk)} : p.id = i)]

\* install_all(packages, parallel, stop_on_error) up to the call of
\* _parallel_install / _sequential_install
InstallAllOn(lists) ==
    /\ pc = "idle"
    /\ \E pk \in lists, par \in BOOLEAN, soe \in BOOLEAN :
          /\ packages' = pk
          /\ parallel' = par
          /\ stop_on_error' = soe
          /\ IF ~session.exists
             THEN /\ session' = InstallSession(Len(pk))
                  /\ tasks' = create_session_tasks(pk)
             ELSE UNCHANGED <<session, tasks>>
          /\ sorted_packages' = sort_by_priority(pk)
          /\ pc' = IF par THEN "dispatch" ELSE "sequential"
          /\ step' = [i \in {pk[j].id : j \in 1..Len(pk)} |-> "none"]
          /\ outcome' = [i \in {pk[j].id : j \in 1..Len(pk)} |-> "none"]
          /\ raises' = [i \in {pk[j].id : j \in 1..Len(pk)} |-> {}]
          /\ reported' = [i \in {pk[j].id : j \in 1..Len(pk)} |-> "none"]
    /\ idx' = 1
    /\ completed_count' = 0
    /\ failed_count' = 0
    /\ skipped_count' = 0
    /\ futures' = {}
    /\ collected' = {}
    /\ UNCHANGED <<requested, max_workers, platform, progress_callback, stop_event,
                   cancel_called, in_flight, observed, error_stop, hot_refreshes, order,
                   config, env>>
    /\ UNCHANGED side

inputs == <<requested, max_workers, platform, progress_callback, packages, parallel,
            stop_on_error, sorted_packages>>
counts == <<completed_count, failed_count, skipped_count>>

\* ---- _parallel_install: the dispatch loop (one iteration per step) ----
DispatchBreak ==
    /\ pc = "dispatch"
    /\ idx <= Len(sorted_packages)
    /\ stop_event
    /\ observed' = TRUE
    /\ pc' = "collect"
    /\ UNCHANGED <<inputs, config, env, in_flight, counts, stop_event, session, tasks, idx, futures, step,
                   collected, cancel_called, outcome, hot_refreshes, order, error_stop,
                   raises>>
    /\ UNCHANGED <<reported, side>>

DispatchSkip ==
    /\ pc = "dispatch"
    /\ idx <= Len(sorted_packages)
    /\ ~stop_event
    /\ LET package == sorted_packages[idx]
           gate == check_dependencies(package)
       IN  /\ ~gate.deps_ok
           /\ package.id \in DOMAIN tasks
           /\ tasks' = [tasks EXCEPT ![package.id] =
                          [@ EXCEPT !.status = SKIPPED,
                                    !.error_message = [kind |-> "deps", ids |-> gate.missing_deps]]]
           /\ order' = Append(order, package.id)
    /\ skipped_count' = skipped_count + 1
    /\ idx' = idx + 1
    /\ UNCHANGED <<inputs, config, env, in_flight, completed_count, failed_count, stop_event, session, pc,
                   futures, step, collected, cancel_called, observed, outcome,
                   hot_refreshes, error_stop,
                   raises>>
    /\ UNCHANGED <<reported, side>>

DispatchSubmit ==
    /\ pc = "dispatch"
    /\ idx <= Len(sorted_packages)
    /\ ~stop_event
    /\ LET package == sorted_packages[idx]
           gate == check_dependencies(package)
       IN  /\ gate.deps_ok
           /\ package.id \in DOMAIN tasks
           /\ futures' = futures \cup {package.id}
           /\ step' = [step EXCEPT ![package.id] = "queued"]
           /\ order' = Append(order, package.id)
    /\ idx' = idx + 1
    /\ UNCHANGED <<inputs, config, env, in_flight, counts, stop_event, session, tasks, pc, collected,
                   cancel_called, observed, outcome, hot_refreshes, error_stop,
                   raises>>
    /\ UNCHANGED <<reported, side>>

DispatchEnd ==
    /\ pc = "dispatch"
    /\ idx > Len(sorted_packages)
    /\ pc' = "collect"
    /\ UNCHANGED <<inputs, config, env, in_flight, counts, stop_event, session, tasks, idx, futures, step,
                   collected, cancel_called, observed, error_stop, raises, outcome, hot_refreshes, order>>
    /\ UNCHANGED <<reported, side>>

\* mutant: the start of one task marks every task of the session INSTALLING
BeginInstall_marks_all(i, cb) ==
    /\ tasks' = [j \in DOMAIN tasks |->
                   update_progress([tasks[j] EXCEPT !.start_time = TRUE, !.status = INSTALLING],
                                   INSTALLING, 0)]
    /\ step' = [step EXCEPT ![i] = IF cb = "raise" THEN "raised" ELSE "try"]
    /\ raises' = [raises EXCEPT ![i] = IF cb = "raise" THEN @ \cup {"callback"} ELSE @]
    /\ reported' = [reported EXCEPT ![i] = Report(@, INSTALLING)]

\* ---- _install_package, run by a pool worker or by the calling thread ----
\* lines 156-160: start_time, INSTALLING, _update_progress(INSTALLING, 0) outside
\* the try; a raising callback leaves the function there
BeginInstall(i, cb) ==
    /\ tasks' = [tasks EXCEPT ![i] =
                   update_progress([@ EXCEPT !.start_time = TRUE, !.status = INSTALLING],
                                   INSTALLING, 0)]
    /\ step' = [step EXCEPT ![i] = IF cb = "raise" THEN "raised" ELSE "try"]
    /\ raises' = [raises EXCEPT ![i] = IF cb = "raise" THEN @ \cup {"callback"} ELSE @]
    /\ reported' = [reported EXCEPT ![i] = Report(@, INSTALLING)]

\* a worker thread takes the head of the queue when fewer than max_workers run
WorkerStart(i) ==
    /\ parallel
    /\ pc \in {"dispatch", "collect", "join", "unwind"}
    /\ QueueHead(i)
    /\ Cardinality(RunningIds) < max_workers
    /\ \E cb \in CallbackResults : BeginInstall(i, cb)
    /\ UNCHANGED <<inputs, config, env, in_flight, counts, stop_event, session, pc, idx, futures, collected,
                   cancel_called, observed, error_stop, outcome, hot_refreshes, order>>
    /\ UNCHANGED side

\* the except clause of _install_package (lines 186-192), and the else branch
\* (lines 181-184) whose callback may raise into it: FAILED either way
FailTask(t, kind) ==
    update_progress([t EXCEPT !.error_message = [kind |-> kind, ids |-> <<>>],
                              !.status = FAILED, !.end_time = TRUE], FAILED, 0)

\* lines 168-171: no adapter for this platform
Unsupported(i) ==
    /\ step[i] = "try"
    /\ platform \notin {"win32", "darwin"}
    /\ tasks' = [tasks EXCEPT ![i] =
                   [@ EXCEPT !.error_message = [kind |-> "platform", ids |-> <<>>],
                             !.status = FAILED]]
    /\ step' = [step EXCEPT ![i] = "returned"]
    /\ UNCHANGED <<inputs, config, env, in_flight, counts, stop_event, session, pc, idx, futures, collected,
                   cancel_called, observed, outcome, hot_refreshes, order, error_stop,
                   raises>>
    /\ UNCHANGED <<reported, side>>

\* lines 173-179 after the adapter returned True: _post_install_actions (which
\* returns, or raises out of append_to_path / set_env), then SUCCESS, end_time
\* and _update_progress(SUCCESS, 100); an exception of a post-install action
\* or of the callback goes to the except clause
Succeed(i, post, cb) ==
    IF post = "ok"
    THEN /\ tasks' = [tasks EXCEPT ![i] =
                        update_progress([@ EXCEPT !.status = SUCCESS, !.end_time = TRUE],
                                        SUCCESS, 100)]
         /\ step' = [step EXCEPT ![i] = IF cb = "raise" THEN "handler" ELSE "returned"]
         /\ raises' = [raises EXCEPT ![i] = IF cb = "raise" THEN @ \cup {"callback"} ELSE @]
         /\ reported' = [reported EXCEPT ![i] = Report(@, SUCCESS)]
    ELSE /\ tasks' = [tasks EXCEPT ![i] = FailTask(@, "exception")]
         /\ reported' = [reported EXCEPT ![i] = Report(@, FAILED)]
         /\ step' = [step EXCEPT ![i] = IF cb = "raise" THEN "raised" ELSE "returned"]
         /\ raises' = [raises EXCEPT ![i] =
                          IF cb = "raise" THEN @ \cup {"post", "callback"} ELSE @ \cup {"post"}]

\* _install_with_winget / _install_with_brew return: exit code 0 (True),
\* "already installed" in the output (status SKIPPED, True), or a failure
\* (False; an exception inside the adapter is caught there and is a failure)
AdapterReturn(i) ==
    /\ step[i] = "try"
    /\ platform \in {"win32", "darwin"}
    /\ \E r \in {"success", "already", "failure"} :
          /\ outcome' = [outcome EXCEPT ![i] = r]
          /\ CASE r = "success" ->
                    \E post \in {"ok", "raise"}, cb \in CallbackResults : Succeed(i, post, cb)
               [] r = "already" ->
                    /\ step' = [step EXCEPT ![i] = "post"]
                    /\ tasks' = [tasks EXCEPT ![i].status = SKIPPED]
                    /\ UNCHANGED <<raises, reported>>
               [] r = "failure" ->
                    \E cb1 \in CallbackResults, cb2 \in CallbackResults :
                       /\ tasks' = [tasks EXCEPT ![i] =
                                      FailTask(@, IF cb1 = "raise" THEN "exception" ELSE "adapter")]
                       /\ step' = [step EXCEPT ![i] =
                                      IF cb1 = "raise" /\ cb2 = "raise" THEN "raised" ELSE "returned"]
                       /\ raises' = [raises EXCEPT ![i] =
                                        IF cb1 = "raise" THEN @ \cup {"callback"} ELSE @]
                       /\ reported' = [reported EXCEPT ![i] = Report(@, FAILED)]
    /\ UNCHANGED <<inputs, config, env, in_flight, counts, stop_event, session, pc, idx, futures, collected,
                   cancel_called, observed, error_stop, hot_refreshes, order>>
    /\ UNCHANGED side

\* the adapter said "already installed" and left the task SKIPPED: lines 173-179
PostInstall(i) ==
    /\ step[i] = "post"
    /\ \E post \in {"ok", "raise"}, cb \in CallbackResults : Succeed(i, post, cb)
    /\ UNCHANGED <<inputs, config, env, in_flight, counts, stop_event, session, pc, idx, futures, collected,
                   cancel_called, observed, error_stop, outcome, hot_refreshes, order>>
    /\ UNCHANGED side

\* lines 186-192 after the SUCCESS callback raised
Handler(i) ==
    /\ step[i] = "handler"
    /\ \E cb \in CallbackResults :
          /\ tasks' = [tasks EXCEPT ![i] = FailTask(@, "exception")]
          /\ step' = [step EXCEPT ![i] = IF cb = "raise" THEN "raised" ELSE "returned"]
          /\ reported' = [reported EXCEPT ![i] = Report(@, FAILED)]
    /\ UNCHANGED <<inputs, config, env, in_flight, counts, stop_event, session, pc, idx, futures, collected,
                   cancel_called, observed, error_stop, raises, outcome, hot_refreshes, order>>
    /\ UNCHANGED side

\* ---- _parallel_install: for future in as_completed(futures) ----
\* as_completed yields a finished future not yielded before, in any order
CollectStop(i) ==
    /\ pc = "collect"
    /\ i \in futures \ collected
    /\ step[i] \in Done
    /\ stop_event
    /\ observed' = TRUE
    /\ step' = CancelFutures(step)
    /\ collected' = collected \cup {i}
    /\ pc' = "join"
    /\ UNCHANGED <<inputs, config, env, in_flight, counts, stop_event, session, tasks, idx, futures,
                   cancel_called, outcome, hot_refreshes, order, error_stop,
                   raises>>
    /\ UNCHANGED <<reported, side>>

\* future.result() returned: the task's status decides the counter
CollectResult(i) ==
    /\ pc = "collect"
    /\ i \in futures \ collected
    /\ step[i] = "returned"
    /\ ~stop_event
    /\ collected' = collected \cup {i}
    /\ CASE tasks[i].status = SUCCESS ->
              /\ completed_count' = completed_count + 1
              /\ UNCHANGED <<failed_count, skipped_count, stop_event, step, pc>>
         [] tasks[i].status = SKIPPED ->
              /\ skipped_count' = skipped_count + 1
              /\ UNCHANGED <<completed_count, failed_count, stop_event, step, pc>>
         [] OTHER ->
              /\ failed_count' = failed_count + 1
              /\ UNCHANGED <<completed_count, skipped_count>>
              /\ IF stop_on_error
                 THEN /\ stop_event' = TRUE
                      /\ step' = CancelFutures(step)
                      /\ pc' = "join"
                 ELSE UNCHANGED <<stop_event, step, pc>>
    /\ error_stop' = (error_stop \/ (stop_on_error /\ tasks[i].status \notin {SUCCESS, SKIPPED}))
    /\ UNCHANGED <<inputs, config, env, in_flight, session, tasks, idx, futures, cancel_called, observed,
                   raises, outcome, hot_refreshes, order>>
    /\ UNCHANGED <<reported, side>>

\* future.result() raised what _install_package let escape (lines 396-398)
CollectException(i) ==
    /\ pc = "collect"
    /\ i \in futures \ collected
    /\ step[i] = "raised"
    /\ ~stop_event
    /\ collected' = collected \cup {i}
    /\ failed_count' = failed_count + 1
    /\ UNCHANGED <<inputs, config, env, in_flight, completed_count, skipped_count, stop_event, session, tasks,
                   pc, idx, futures, step, cancel_called, observed, outcome,
                   hot_refreshes, order, error_stop,
                   raises>>
    /\ UNCHANGED <<reported, side>>

\* as_completed is exhausted
CollectEnd ==
    /\ pc = "collect"
    /\ collected = futures
    /\ pc' = "join"
    /\ UNCHANGED <<inputs, config, env, in_flight, counts, stop_event, session, tasks, idx, futures, step,
                   collected, cancel_called, observed, outcome, hot_refreshes, order, error_stop,
                   raises>>
    /\ UNCHANGED <<reported, side>>

\* mutant: completed and failed are stored in each other's place
store_counts_swapped(sess, completed, failed, skipped) ==
    [sess EXCEPT !.completed = failed, !.failed = completed, !.skipped = skipped]

\* mutant: skipped tasks are stored as completed ones
store_counts_skipped_as_completed(sess, completed, failed, skipped) ==
    [sess EXCEPT !.completed = completed + skipped, !.failed = failed, !.skipped = 0]

\* mutant: the skipped counter is not stored
store_counts_without_skipped(sess, completed, failed, skipped) ==
    [sess EXCEPT !.completed = completed, !.failed = failed]

\* self._session.completed / failed / skipped = the local counters
store_counts(sess, completed, failed, skipped) ==
    [sess EXCEPT !.completed = completed, !.failed = failed, !.skipped = skipped]

\* leaving the with block is executor.shutdown(wait=True): it returns when no
\* worker runs; then lines 400-406
ParallelReturn ==
    /\ pc = "join"
    /\ RunningIds = {}
    /\ \A i \in DOMAIN step : step[i] # "queued"
    /\ session' = store_counts(session, completed_count, failed_count, skipped_count)
    /\ hot_refreshes' = hot_refreshes + 1
    /\ pc' = "returned"
    /\ UNCHANGED <<inputs, config, env, in_flight, counts, stop_event, tasks, idx, futures, step, collected,
                   cancel_called, observed, outcome, order, error_stop,
                   raises>>
    /\ UNCHANGED <<reported, side>>

\* ---- _sequential_install ----
SequentialBreak ==
    /\ pc = "sequential"
    /\ idx <= Len(sorted_packages)
    /\ stop_event
    /\ observed' = TRUE
    /\ pc' = "finish"
    /\ UNCHANGED <<inputs, config, env, in_flight, counts, stop_event, session, tasks, idx, futures, step,
                   collected, cancel_called, outcome, hot_refreshes, order, error_stop,
                   raises>>
    /\ UNCHANGED <<reported, side>>

\* task = tasks[package.id]; _install_package(task) begins on the calling thread
SequentialStart ==
    /\ pc = "sequential"
    /\ idx <= Len(sorted_packages)
    /\ ~stop_event
    /\ sorted_packages[idx].id \in DOMAIN tasks
    /\ \E cb \in CallbackResults : BeginInstall(sorted_packages[idx].id, cb)
    /\ order' = Append(order, sorted_packages[idx].id)
    /\ pc' = "installing"
    /\ UNCHANGED <<inputs, config, env, in_flight, counts, stop_event, session, idx, futures, collected,
                   cancel_called, observed, error_stop, outcome, hot_refreshes>>
    /\ UNCHANGED side

\* mutant: a failed task does not end the loop under stop_on_error
SequentialResult_keeps_going ==
    /\ pc = "installing"
    /\ step[sorted_packages[idx].id] = "returned"
    /\ LET status == tasks[sorted_packages[idx].id].status
       IN  /\ completed_count' = completed_count + (IF status = SUCCESS THEN 1 ELSE 0)
           /\ skipped_count' = skipped_count + (IF status = SKIPPED THEN 1 ELSE 0)
           /\ failed_count' = failed_count + (IF status \in {SUCCESS, SKIPPED} THEN 0 ELSE 1)
           /\ error_stop' = (error_stop \/ (stop_on_error /\ status \notin {SUCCESS, SKIPPED}))
    /\ pc' = "sequential"
    /\ idx' = idx + 1
    /\ UNCHANGED <<inputs, config, env, in_flight, stop_event, session, tasks, futures, step, collected,
                   cancel_called, observed, raises, outcome, hot_refreshes, order>>
    /\ UNCHANGED <<reported, side>>

\* _install_package returned: lines 424-431
SequentialResult ==
    /\ pc = "installing"
    /\ step[sorted_packages[idx].id] = "returned"
    /\ LET status == tasks[sorted_packages[idx].id].status
       IN  CASE status = SUCCESS ->
                  /\ completed_count' = completed_count + 1
                  /\ UNCHANGED <<failed_count, skipped_count>>
                  /\ pc' = "sequential"
             [] status = SKIPPED ->
                  /\ skipped_count' = skipped_count + 1
                  /\ UNCHANGED <<completed_count, failed_count>>
                  /\ pc' = "sequential"
             [] OTHER ->
                  /\ failed_count' = failed_count + 1
                  /\ UNCHANGED <<completed_count, skipped_count>>
                  /\ pc' = IF stop_on_error THEN "finish" ELSE "sequential"
    /\ idx' = idx + 1
    /\ error_stop' = (error_stop \/ (stop_on_error /\
                         tasks[sorted_packages[idx].id].status \notin {SUCCESS, SKIPPED}))
    /\ UNCHANGED <<inputs, config, env, in_flight, stop_event, session, tasks, futures, step, collected,
                   cancel_called, observed, raises, outcome, hot_refreshes, order>>
    /\ UNCHANGED <<reported, side>>

\* _install_package raised: nothing in _sequential_install or install_all catches it
SequentialRaise ==
    /\ pc = "installing"
    /\ step[sorted_packages[idx].id] = "raised"
    /\ pc' = "raised"
    /\ UNCHANGED <<inputs, config, env, in_flight, counts, stop_event, session, tasks, idx, futures, step,
                   collected, cancel_called, observed, outcome, hot_refreshes, order, error_stop,
                   raises>>
    /\ UNCHANGED <<reported, side>>

SequentialEnd ==
    /\ pc = "sequential"
    /\ idx > Len(sorted_packages)
    /\ pc' = "finish"
    /\ UNCHANGED <<inputs, config, env, in_flight, counts, stop_event, session, tasks, idx, futures, step,
                   collected, cancel_called, observed, outcome, hot_refreshes, order, error_stop,
                   raises>>
    /\ UNCHANGED <<reported, side>>

\* lines 433-439
SequentialReturn ==
    /\ pc = "finish"
    /\ session' = store_counts(session, completed_count, failed_count, skipped_count)
    /\ hot_refreshes' = hot_refreshes + 1
    /\ pc' = "returned"
    /\ UNCHANGED <<inputs, config, env, in_flight, counts, stop_event, tasks, idx, futures, step, collected,
                   cancel_called, observed, outcome, order, error_stop,
                   raises>>
    /\ UNCHANGED <<reported, side>>

InstallAll == InstallAllOn(PackageLists)

Next ==
    \/ SetProgressCallback
    \/ Cancel
    \/ InstallAll
    \/ DispatchBreak
    \/ DispatchSkip
    \/ DispatchSubmit
    \/ DispatchEnd
    \/ \E i \in DOMAIN step : WorkerStart(i)
    \/ \E i \in DOMAIN step : Unsupported(i)
    \/ \E i \in DOMAIN step : AdapterReturn(i)
    \/ \E i \in DOMAIN step : PostInstall(i)
    \/ \E i \in DOMAIN step : Handler(i)
    \/ \E i \in DOMAIN step : CollectStop(i)
    \/ \E i \in DOMAIN step : CollectResult(i)
    \/ \E i \in DOMAIN step : CollectException(i)
    \/ CollectEnd
    \/ ParallelReturn
    \/ SequentialBreak
    \/ SequentialStart
    \/ SequentialResult
    \/ SequentialRaise
    \/ SequentialEnd
    \/ SequentialReturn

Init == InitOn(Requests, Platforms) /\ NoConfig /\ NoEnv /\ NoSide

Spec == Init /\ [][Next]_vars

\* ---- the same installer on wider inputs ----
\* SpecSort: up to MaxSortPkgs packages of every priority, on the platform
\* that has no adapter (every task fails at once, so the runs stay small)
SortLists == ListsOf(MaxSortPkgs, InstallPriority, {<<>>, <<1>>})

InstallAllSort == InstallAllOn(SortLists)

NextSort ==
    \/ SetProgressCallback
    \/ Cancel
    \/ InstallAllSort
    \/ DispatchBreak
    \/ DispatchSkip
    \/ DispatchSubmit
    \/ DispatchEnd
    \/ \E i \in DOMAIN step : WorkerStart(i)
    \/ \E i \in DOMAIN step : Unsupported(i)
    \/ \E i \in DOMAIN step : CollectStop(i)
    \/ \E i \in DOMAIN step : CollectResult(i)
    \/ \E i \in DOMAIN step : CollectException(i)
    \/ CollectEnd
    \/ ParallelReturn
    \/ SequentialBreak
    \/ SequentialStart
    \/ SequentialResult
    \/ SequentialRaise
    \/ SequentialEnd
    \/ SequentialReturn

InitSort == InitOn(Requests, {"linux"}) /\ NoConfig /\ NoEnv /\ NoSide

SpecSort == InitSort /\ [][NextSort]_vars

\* SpecGate: packages of one priority with up to MaxGateDeps dependencies each
GateLists == ListsOf(MaxPkgs, {NORMAL_PRIORITY}, SeqsUpTo(DepIds, MaxGateDeps))

InstallAllGate == InstallAllOn(GateLists)

NextGate ==
    \/ SetProgressCallback
    \/ Cancel
    \/ InstallAllGate
    \/ DispatchBreak
    \/ DispatchSkip
    \/ DispatchSubmit
    \/ DispatchEnd
    \/ \E i \in DOMAIN step : WorkerStart(i)
    \/ \E i \in DOMAIN step : Unsupported(i)
    \/ \E i \in DOMAIN step : AdapterReturn(i)
    \/ \E i \in DOMAIN step : PostInstall(i)
    \/ \E i \in DOMAIN step : Handler(i)
    \/ \E i \in DOMAIN step : CollectStop(i)
    \/ \E i \in DOMAIN step : CollectResult(i)
    \/ \E i \in DOMAIN step : CollectException(i)
    \/ CollectEnd
    \/ ParallelReturn
    \/ SequentialBreak
    \/ SequentialStart
    \/ SequentialResult
    \/ SequentialRaise
    \/ SequentialEnd
    \/ SequentialReturn

InitGate == InitOn({MAX_WORKERS}, {"win32", "linux"}) /\ NoConfig /\ NoEnv /\ NoSide

SpecGate == InitGate /\ [][NextGate]_vars


\* ---- a second install_all on the same BatchInstaller ----
\* install_all called again after it returned, as on the instance that
\* get_batch_installer() hands out: `if not self._session` keeps the session
\* of the first call
ReuseLists == ListsOf(MaxPkgs, {NORMAL_PRIORITY}, {<<>>, <<1>>})

InstallAllAgain ==
    /\ pc = "returned"
    /\ hot_refreshes < MaxCalls
    /\ \E pk \in ReuseLists, par \in BOOLEAN, soe \in BOOLEAN :
          /\ packages' = pk
          /\ parallel' = par
          /\ stop_on_error' = soe
          /\ IF ~session.exists
             THEN /\ session' = InstallSession(Len(pk))
                  /\ tasks' = create_session_tasks(pk)
             ELSE UNCHANGED <<session, tasks>>
          /\ sorted_packages' = sort_by_priority(pk)
          /\ pc' = IF par THEN "dispatch" ELSE "sequential"
          /\ step' = [i \in {pk[j].id : j \in 1..Len(pk)} |-> "none"]
          /\ outcome' = [i \in {pk[j].id : j \in 1..Len(pk)} |-> "none"]
          /\ raises' = [i \in {pk[j].id : j \in 1..Len(pk)} |-> {}]
          /\ reported' = [i \in {pk[j].id : j \in 1..Len(pk)} |-> "none"]
    /\ idx' = 1
    /\ completed_count' = 0
    /\ failed_count' = 0
    /\ skipped_count' = 0
    /\ futures' = {}
    /\ collected' = {}
    /\ UNCHANGED <<requested, max_workers, platform, progress_callback, stop_event,
                   cancel_called, in_flight, observed, error_stop, hot_refreshes, order,
                   config, env>>
    /\ UNCHANGED side

InstallAllFirst == InstallAllOn(ReuseLists)

\* self._session.tasks[package.id] (lines 364, 370) raises KeyError for a
\* package the session has no task for; the exception leaves the with block,
\* whose exit is executor.shutdown(wait=True)
DispatchKeyError ==
    /\ pc = "dispatch"
    /\ idx <= Len(sorted_packages)
    /\ ~stop_event
    /\ sorted_packages[idx].id \notin DOMAIN tasks
    /\ pc' = "unwind"
    /\ UNCHANGED <<inputs, config, env, in_flight, counts, stop_event, session, tasks, idx, futures, step,
                   collected, cancel_called, observed, error_stop, raises, outcome, hot_refreshes, order>>
    /\ UNCHANGED <<reported, side>>

\* the pool has drained: the KeyError leaves install_all
UnwindRaise ==
    /\ pc = "unwind"
    /\ RunningIds = {}
    /\ \A i \in DOMAIN step : step[i] # "queued"
    /\ pc' = "raised"
    /\ UNCHANGED <<inputs, config, env, in_flight, counts, stop_event, session, tasks, idx, futures, step,
                   collected, cancel_called, observed, error_stop, raises, outcome, hot_refreshes, order>>
    /\ UNCHANGED <<reported, side>>

\* line 421: the same lookup in _sequential_install
SequentialKeyError ==
    /\ pc = "sequential"
    /\ idx <= Len(sorted_packages)
    /\ ~stop_event
    /\ sorted_packages[idx].id \notin DOMAIN tasks
    /\ pc' = "raised"
    /\ UNCHANGED <<inputs, config, env, in_flight, counts, stop_event, session, tasks, idx, futures, step,
                   collected, cancel_called, observed, error_stop, raises, outcome, hot_refreshes, order>>
    /\ UNCHANGED <<reported, side>>

NextReuse ==
    \/ SetProgressCallback
    \/ Cancel
    \/ InstallAllFirst
    \/ InstallAllAgain
    \/ DispatchBreak
    \/ DispatchSkip
    \/ DispatchSubmit
    \/ DispatchKeyError
    \/ DispatchEnd
    \/ UnwindRaise
    \/ \E i \in DOMAIN step : WorkerStart(i)
    \/ \E i \in DOMAIN step : Unsupported(i)
    \/ \E i \in DOMAIN step : CollectStop(i)
    \/ \E i \in DOMAIN step : CollectResult(i)
    \/ \E i \in DOMAIN step : CollectException(i)
    \/ CollectEnd
    \/ ParallelReturn
    \/ SequentialBreak
    \/ SequentialStart
    \/ SequentialKeyError
    \/ SequentialResult
    \/ SequentialRaise
    \/ SequentialEnd
    \/ SequentialReturn

InitReuse == InitOn({MAX_WORKERS}, {"linux"}) /\ NoConfig /\ NoEnv /\ NoSide

SpecReuse == InitReuse /\ [][NextReuse]_vars


\* ---- two runs of the same package list, each on its own BatchInstaller ----
\* what a returned run leaves: the statuses and the counters, with the
\* adapter outcomes and the exceptions that produced them
RunResult ==
    [done |-> TRUE, packages |-> packages, parallel |-> parallel,
     stop_on_error |-> stop_on_error,
     status |-> [i \in DOMAIN tasks |-> tasks[i].status],
     completed |-> session.completed, failed |-> session.failed, skipped |-> session.skipped,
     outcome |-> outcome, raises |-> raises]

\* BatchInstaller(max_workers) is constructed again (__init__, lines 100-109)
\* after install_all returned on the first one
NewInstaller ==
    /\ pc = "returned"
    /\ ~first_run.done
    /\ first_run' = RunResult
    /\ progress_callback' = "none"
    /\ stop_event' = FALSE
    /\ session' = NoSession
    /\ tasks' = <<>>
    /\ packages' = <<>>
    /\ parallel' = TRUE
    /\ stop_on_error' = FALSE
    /\ sorted_packages' = <<>>
    /\ pc' = "idle"
    /\ idx' = 1
    /\ completed_count' = 0
    /\ failed_count' = 0
    /\ skipped_count' = 0
    /\ futures' = {}
    /\ step' = <<>>
    /\ collected' = {}
    /\ cancel_called' = FALSE
    /\ in_flight' = {}
    /\ observed' = FALSE
    /\ error_stop' = FALSE
    /\ raises' = <<>>
    /\ outcome' = <<>>
    /\ hot_refreshes' = 0
    /\ order' = <<>>
    /\ reported' = <<>>
    /\ UNCHANGED <<requested, max_workers, platform, config, env, appending, error,
                   error_handlers, handled>>

\* install_all on a list, and on the second installer on the list of the first run
InstallAllPair ==
    IF first_run.done THEN InstallAllOn({first_run.packages}) ELSE InstallAllOn(ReuseLists)

\* no cancel() and no progress callback
NextPair ==
    \/ InstallAllPair
    \/ NewInstaller
    \/ DispatchSkip
    \/ DispatchSubmit
    \/ DispatchEnd
    \/ \E i \in DOMAIN step : WorkerStart(i)
    \/ \E i \in DOMAIN step : AdapterReturn(i)
    \/ \E i \in DOMAIN step : PostInstall(i)
    \/ \E i \in DOMAIN step : CollectResult(i)
    \/ CollectEnd
    \/ ParallelReturn
    \/ SequentialStart
    \/ SequentialResult
    \/ SequentialEnd
    \/ SequentialReturn

InitPair == InitOn({MAX_WORKERS}, {"win32"}) /\ NoConfig /\ NoEnv /\ NoSide

SpecPair == InitPair /\ [][NextPair]_vars


\* ---- install_all under fair scheduling ----
\* the steps of the calling thread inside install_all and of the pool workers
Program ==
    \/ DispatchBreak
    \/ DispatchSkip
    \/ DispatchSubmit
    \/ DispatchEnd
    \/ \E i \in DOMAIN step : WorkerStart(i)
    \/ \E i \in DOMAIN step : Unsupported(i)
    \/ \E i \in DOMAIN step : AdapterReturn(i)
    \/ \E i \in DOMAIN step : PostInstall(i)
    \/ \E i \in DOMAIN step : Handler(i)
    \/ \E i \in DOMAIN step : CollectStop(i)
    \/ \E i \in DOMAIN step : CollectResult(i)
    \/ \E i \in DOMAIN step : CollectException(i)
    \/ CollectEnd
    \/ ParallelReturn
    \/ SequentialBreak
    \/ SequentialStart
    \/ SequentialResult
    \/ SequentialRaise
    \/ SequentialEnd
    \/ SequentialReturn

InstallAllLive == InstallAllOn(ReuseLists)

NextLive ==
    \/ SetProgressCallback
    \/ Cancel
    \/ InstallAllLive
    \/ Program

InitLive == InitOn(Requests, {"win32", "linux"}) /\ NoConfig /\ NoEnv /\ NoSide

\* the threads are scheduled and every adapter invocation and post-install
\* action returns: a step of the program is taken whenever one stays possible
SpecLive == InitLive /\ [][NextLive]_vars /\ WF_vars(Program)


\* ---- AutomationScript.generate_config_file / load_config_file ----
\* Python's None, and JSON's null
None == "None"
JsonNull == "null"

\* json.dump / json.load on a field that holds a string or None: None <->
\* null; numbers, lists and dicts of strings are written and read back as
\* they are
to_json(v) == IF v = None THEN JsonNull ELSE v
from_json(v) == IF v = JsonNull THEN None ELSE v

\* the members of InstallPriority by name; .value and InstallPriority(value)
PriorityMembers == {"CRITICAL", "HIGH", "NORMAL", "LOW"}

priority_value(member) ==
    CASE member = "CRITICAL" -> CRITICAL_PRIORITY
      [] member = "HIGH" -> HIGH_PRIORITY
      [] member = "NORMAL" -> NORMAL_PRIORITY
      [] member = "LOW" -> LOW_PRIORITY

\* mutant: the stored ordinal is ignored
InstallPriorityOf_default(value) == "NORMAL"

InstallPriorityOf(value) == CHOOSE member \in PriorityMembers : priority_value(member) = value

\* SoftwarePackage with all its fields; env_vars is the set of its (name, value) pairs
Descriptors ==
    [id : {"a"}, name : {"A"}, version : {None, "1.0"}, source : {None, "winget"},
     category : {"Other", "Dev"}, priority : PriorityMembers,
     dependencies : {<<>>, <<"b">>}, post_install : {<<>>}, env_vars : {{}, {<<"K", "v">>}},
     path_additions : {<<>>}]

DescriptorLists == SeqsUpTo(Descriptors, MaxConfigPkgs)

\* the dict generate_config_file writes for one package (lines 687-697)
config_entry(pkg) ==
    [id |-> to_json(pkg.id),
     name |-> to_json(pkg.name),
     version |-> to_json(pkg.version),
     category |-> to_json(pkg.category),
     priority |-> priority_value(pkg.priority),
     dependencies |-> pkg.dependencies,
     post_install |-> pkg.post_install,
     env_vars |-> pkg.env_vars,
     path_additions |-> pkg.path_additions]

\* pkg_data.get(key, default); SoftwarePackage's own default when key is no argument
get(pkg_data, key, default) ==
    IF key \in DOMAIN pkg_data THEN pkg_data[key] ELSE default

\* the SoftwarePackage load_config_file builds from one dict (lines 713-723);
\* source is no argument of the constructor call, so it is the default None
package_from(pkg_data) ==
    [id |-> from_json(pkg_data.id),
     name |-> from_json(pkg_data.name),
     version |-> from_json(get(pkg_data, "version", JsonNull)),
     source |-> None,
     category |-> from_json(get(pkg_data, "category", "Other")),
     priority |-> InstallPriorityOf(get(pkg_data, "priority", NORMAL_PRIORITY)),
     dependencies |-> get(pkg_data, "dependencies", <<>>),
     post_install |-> get(pkg_data, "post_install", <<>>),
     env_vars |-> get(pkg_data, "env_vars", {}),
     path_additions |-> get(pkg_data, "path_additions", <<>>)]

\* generate_config_file(packages, output_path)
GenerateConfigFile ==
    /\ config_file = NoFile
    /\ config_file' = [written |-> TRUE,
                       packages |-> [k \in 1..Len(descriptors) |-> config_entry(descriptors[k])]]
    /\ UNCHANGED <<descriptors, loaded, config_again>>
    /\ UNCHANGED <<inputs, env, in_flight, counts, stop_event, session, tasks, pc, idx, futures,
                   step, collected, cancel_called, observed, error_stop, raises, outcome,
                   hot_refreshes, order>>
    /\ UNCHANGED <<reported, side>>

\* load_config_file(config_path) on the file written
LoadConfigFile ==
    /\ config_file # NoFile
    /\ loaded = NotLoaded
    /\ loaded' = [done |-> TRUE,
                  packages |-> [k \in 1..Len(config_file.packages) |->
                                   package_from(config_file.packages[k])]]
    /\ UNCHANGED <<descriptors, config_file, config_again>>
    /\ UNCHANGED <<inputs, env, in_flight, counts, stop_event, session, tasks, pc, idx, futures,
                   step, collected, cancel_called, observed, error_stop, raises, outcome,
                   hot_refreshes, order>>
    /\ UNCHANGED <<reported, side>>

\* the document generate_config_file builds from a package list (lines 682-699;
\* 'version' and the 'generated' timestamp are the same in every document of
\* one round trip)
config_document(pk) ==
    [written |-> TRUE, packages |-> [k \in 1..Len(pk) |-> config_entry(pk[k])]]

\* generate_config_file(load_config_file(config_path), other_path)
GenerateConfigFileAgain ==
    /\ loaded # NotLoaded
    /\ config_again = NoFile
    /\ config_again' = config_document(loaded.packages)
    /\ UNCHANGED <<descriptors, config_file, loaded>>
    /\ UNCHANGED <<inputs, env, in_flight, counts, stop_event, session, tasks, pc, idx, futures,
                   step, collected, cancel_called, observed, error_stop, raises, outcome,
                   hot_refreshes, order>>
    /\ UNCHANGED <<reported, side>>

\* SpecConfig: a list of descriptors is written to a config file, read back
\* and written again
NextConfig ==
    \/ GenerateConfigFile
    \/ LoadConfigFile
    \/ GenerateConfigFileAgain

InitConfig ==
    /\ InitOn({MAX_WORKERS}, {"linux"})
    /\ descriptors \in DescriptorLists
    /\ config_file = NoFile
    /\ loaded = NotLoaded
    /\ config_again = NoFile
    /\ NoEnv
    /\ NoSide

SpecConfig == InitConfig /\ [][NextConfig]_vars


\* ---- EnvironmentManager.append_to_path ----
\* a path string is a sequence of letters; upper and lower case are different letters
Letters == {"a", "A", "b", "B"}

lower_letter(c) == CASE c = "A" -> "a" [] c = "B" -> "b" [] OTHER -> c

\* str.lower()
lower(str) == [k \in 1..Len(str) |-> lower_letter(str[k])]

PathStrings == UNION {[1..n -> Letters] : n \in 1..MaxPathLen}

\* str(Path(path_to_add).resolve()) on an absolute path without symlinks or
\* dots: on win32 a directory that exists comes back in the file system's
\* spelling, any other path comes back as it was given
resolve(path) ==
    IF platform = "win32" /\ \E d \in existing_dirs : lower(d) = lower(path)
    THEN CHOOSE d \in existing_dirs : lower(d) = lower(path)
    ELSE path


\* path_to_add in current_path.split(';')
in_path(path, entries) == \E k \in 1..Len(entries) : entries[k] = path

\* what get_env("PATH", scope) can return for the default scope USER: the
\* process PATH off win32; on win32 the output of powershell, or None when it
\* fails (read as the empty PATH by `or ""`)
CurrentPaths ==
    IF platform = "win32" THEN {user_path, <<>>} ELSE {user_path}

\* what set_env("PATH", new_path, scope, persist=True) can do for the scope
\* USER: off win32 nothing (it returns False); on win32 the powershell call
\* stores the value, or fails and stores nothing
SetEnvResults ==
    IF platform = "win32" THEN {TRUE, FALSE} ELSE {FALSE}

\* append_to_path(path_to_add) with the default scope and position
AppendToPath ==
    /\ Len(appended) < MaxAppends
    /\ \E path \in PathStrings, current \in CurrentPaths, stored \in SetEnvResults :
          LET path_to_add == resolve(path)
          IN  IF in_path(path_to_add, current)
              THEN /\ appended' = Append(appended,
                                         [path |-> path, before |-> user_path,
                                          current |-> current, returned |-> TRUE])
                   /\ UNCHANGED user_path
              ELSE /\ appended' = Append(appended,
                                         [path |-> path, before |-> user_path,
                                          current |-> current, returned |-> stored])
                   /\ user_path' = IF stored THEN Append(current, path_to_add) ELSE user_path
    /\ UNCHANGED <<existing_dirs, config>>
    /\ UNCHANGED <<inputs, in_flight, counts, stop_event, session, tasks, pc, idx, futures,
                   step, collected, cancel_called, observed, error_stop, raises, outcome,
                   hot_refreshes, order>>
    /\ UNCHANGED <<reported, side>>

\* SpecPath: append_to_path is called MaxAppends times on a PATH of at most
\* one entry, with at most one directory existing
NextPath == AppendToPath

InitPath ==
    /\ InitOn({MAX_WORKERS}, Platforms)
    /\ NoConfig
    /\ existing_dirs \in {{}} \cup {{d} : d \in PathStrings}
    /\ user_path \in {<<>>} \cup {<<d>> : d \in PathStrings}
    /\ appended = <<>>
    /\ NoSide

SpecPath == InitPath /\ [][NextPath]_vars

\* ---- append_to_path called by two pool workers (_post_install_actions) ----
\* the variables of BatchInstaller
installer == <<inputs, in_flight, counts, stop_event, session, tasks, pc, idx, futures, step,
               collected, cancel_called, observed, error_stop, raises, outcome, hot_refreshes,
               order, reported>>

\* the two workers whose tasks succeeded
Appenders == {1, 2}

\* lines 213-215: path_to_add is resolved and PATH is read into current_path
AppendRead(w) ==
    /\ appending[w].state = "start"
    /\ \E current \in CurrentPaths :
          appending' = [appending EXCEPT ![w] =
                           [@ EXCEPT !.state = "read",
                                     !.path_to_add = resolve(appending[w].path),
                                     !.current_path = current,
                                     !.read_ok = (current = user_path)]]
    /\ UNCHANGED <<user_path, existing_dirs, appended, config, installer, first_run, error,
                   error_handlers, handled>>

\* lines 217-227: the membership test on what was read, then set_env("PATH",
\* current_path;path_to_add)
AppendWrite(w) ==
    /\ appending[w].state = "read"
    /\ \E stored \in SetEnvResults :
          LET call == appending[w]
          IN  IF in_path(call.path_to_add, call.current_path)
              THEN /\ appending' = [appending EXCEPT ![w].state = "done", ![w].returned = TRUE]
                   /\ UNCHANGED user_path
              ELSE /\ appending' = [appending EXCEPT ![w].state = "done", ![w].returned = stored]
                   /\ user_path' = IF stored THEN Append(call.current_path, call.path_to_add)
                                   ELSE user_path
    /\ UNCHANGED <<existing_dirs, appended, config, installer, first_run, error,
                   error_handlers, handled>>

NextRace ==
    \/ \E w \in Appenders : AppendRead(w)
    \/ \E w \in Appenders : AppendWrite(w)

\* each worker is about to append a path of its own
InitRace ==
    /\ InitOn({MAX_WORKERS}, Platforms)
    /\ NoConfig
    /\ existing_dirs = {}
    /\ user_path \in {<<>>} \cup {<<d>> : d \in PathStrings}
    /\ appended = <<>>
    /\ first_run = NoRun
    /\ \E p1, p2 \in PathStrings :
          /\ lower(p1) # lower(p2)
          /\ appending = [w \in Appenders |->
                            [state |-> "start", path |-> IF w = 1 THEN p1 ELSE p2,
                             path_to_add |-> <<>>, current_path |-> <<>>,
                             read_ok |-> FALSE, returned |-> FALSE]]
    /\ error = InstallationError(TRUE)
    /\ error_handlers = FALSE
    /\ handled = <<>>

SpecRace == InitRace /\ [][NextRace]_vars

\* ---------------------------------------------------------------------------
\* ErrorManager recovery (error_handler.py): handle_error and
\* _attempt_recovery called repeatedly on one InstallationError.  `error` is
\* the InstallationError, `error_handlers` tells whether a handler is
\* registered for its category, `handled` is the history of the calls.
\* ---------------------------------------------------------------------------

\* What a registered recovery handler does when it is called.
HandlerBehaviours == {"true", "false", "raise"}

attempt_recovery_unbounded(err, handler, behaviour) ==
    [error    |-> [err EXCEPT !.retry_count = @ + 1],
     invoked  |-> handler,
     returned |-> handler /\ behaviour = "true",
     raised   |-> FALSE]

\* _attempt_recovery: the error after the call, whether the handler was
\* invoked, the value returned and whether an exception left the method.
attempt_recovery(err, handler, behaviour) ==
    IF err.retry_count >= err.max_retries
    THEN [error |-> err, invoked |-> FALSE, returned |-> FALSE, raised |-> FALSE]
    ELSE [error    |-> [err EXCEPT !.retry_count = @ + 1],
          invoked  |-> handler,
          returned |-> handler /\ behaviour = "true",
          raised   |-> FALSE]

\* handle_error(error, auto_recover)
handle_error(err, auto_recover, handler, behaviour) ==
    IF auto_recover /\ err.recoverable
    THEN attempt_recovery(err, handler, behaviour)
    ELSE [error |-> err, invoked |-> FALSE, returned |-> FALSE, raised |-> FALSE]

RegisterHandler ==
    /\ ~error_handlers
    /\ error_handlers' = TRUE
    /\ UNCHANGED <<error, handled, config, env, installer, first_run, appending>>

HandleError ==
    /\ Len(handled) < MaxHandleCalls
    /\ \E auto_recover \in BOOLEAN, behaviour \in HandlerBehaviours :
          LET call == handle_error(error, auto_recover, error_handlers, behaviour)
          IN  /\ error' = call.error
              /\ handled' = Append(handled,
                                   [auto_recover |-> auto_recover,
                                    behaviour    |-> behaviour,
                                    before       |-> error.retry_count,
                                    invoked      |-> call.invoked,
                                    returned     |-> call.returned,
                                    raised       |-> call.raised])
    /\ UNCHANGED <<error_handlers, config, env, installer, first_run, appending>>

NextRecovery == RegisterHandler \/ HandleError

InitRecovery ==
    /\ InitOn({MAX_WORKERS}, Platforms)
    /\ NoConfig
    /\ NoEnv
    /\ first_run = NoRun
    /\ appending = <<>>
    /\ \E recoverable \in BOOLEAN : error = InstallationError(recoverable)
    /\ error_handlers = FALSE
    /\ handled = <<>>

SpecRecovery == InitRecovery /\ [][NextRecovery]_vars




\* ------------------------------------------------------------------ claims
Total(sess) == sess.completed + sess.failed + sess.skipped

\* C1: the counters never sum to more than total_packages, and when
\* install_all returns from a run without cancel() and without a stop on
\* error, they sum to total_packages exactly (both modes)
C1_CountersSumToTotal ==
    session.exists =>
       /\ completed_count + failed_count + skipped_count <= session.total_packages
       /\ Total(session) <= session.total_packages
       /\ (pc = "returned" /\ ~cancel_called /\ ~error_stop) =>
             Total(session) = session.total_packages

C1_Witness ==
    /\ pc = "returned"
    /\ ~cancel_called
    /\ ~error_stop
    /\ parallel
    /\ session.total_packages = 2
    /\ session.completed = 1
    /\ session.failed = 1

\* the package the dispatch loop is at
Current == sorted_packages[idx]

Range(s) == {s[k] : k \in 1..Len(s)}

\* one of the package's dependency ids has a task that is not SUCCESS
HasUnmetPresentDependency(package) ==
    \E k \in 1..Len(package.dependencies) :
       /\ package.dependencies[k] \in DOMAIN tasks
       /\ tasks[package.dependencies[k]].status # SUCCESS

GateSkipped(i) == tasks[i].error_message.kind = "deps"

\* C2: in parallel mode, when the dispatch loop takes a package one of whose
\* dependency ids has a task that is not SUCCESS, the package is marked
\* SKIPPED and not submitted; a package skipped at the gate stays SKIPPED, is
\* in no worker's hands and was never INSTALLING (start_time is never set)
C2_GateFailureNeverInstalls ==
    /\ [][(/\ pc = "dispatch"
           /\ idx <= Len(sorted_packages)
           /\ idx' = idx + 1
           /\ HasUnmetPresentDependency(Current))
          => (/\ tasks'[Current.id].status = SKIPPED
              /\ Current.id \notin futures'
              /\ step'[Current.id] = "none")]_vars
    /\ [](\A i \in DOMAIN tasks :
             GateSkipped(i) =>
                /\ tasks[i].status = SKIPPED
                /\ ~tasks[i].start_time
                /\ i \notin futures
                /\ step[i] = "none"
                /\ outcome[i] = "none")

C2_Witness ==
    /\ pc = "returned"
    /\ parallel
    /\ \E i \in DOMAIN tasks :
          /\ GateSkipped(i)
          /\ tasks[i].error_message.ids # <<>>
          /\ tasks[i].error_message.ids[1] # i
          /\ tasks[tasks[i].error_message.ids[1]].status = FAILED

\* one of the package's dependency ids has no task in the session
HasAbsentDependency(package) ==
    \E k \in 1..Len(package.dependencies) : package.dependencies[k] \notin DOMAIN tasks

\* C3 (as claimed): a package with a dependency id that has no task in the
\* session ends SKIPPED and is never dispatched to the adapter
C3_AbsentDependencySkips ==
    (pc = "returned" /\ parallel /\ ~cancel_called) =>
       \A i \in DOMAIN tasks :
          HasAbsentDependency(tasks[i].package) =>
             /\ tasks[i].status = SKIPPED
             /\ i \notin futures
             /\ outcome[i] = "none"

\* the scenario of C4: A = 1 (CRITICAL, no dependencies), B = 2 (NORMAL, [A])
ScenarioAB ==
    <<SoftwarePackage(1, CRITICAL_PRIORITY, <<>>), SoftwarePackage(2, NORMAL_PRIORITY, <<1>>)>>

\* C4: parallel install_all on [A, B depending on A] with the adapter failing
\* for A and no cancel(): the adapter is never invoked for B, and at return A
\* is FAILED, B is SKIPPED naming A, failed = 1, skipped = 1, completed = 0
C4_FailedDependencyScenario ==
    (parallel /\ packages = ScenarioAB /\ ~cancel_called /\ outcome[1] = "failure") =>
       /\ outcome[2] = "none"
       /\ step[2] = "none"
       /\ pc # "raised"
       /\ (pc = "returned") =>
             /\ tasks[1].status = FAILED
             /\ tasks[2].status = SKIPPED
             /\ tasks[2].error_message = [kind |-> "deps", ids |-> <<1>>]
             /\ session.failed = 1
             /\ session.skipped = 1
             /\ session.completed = 0

C4_Witness ==
    /\ parallel
    /\ packages = ScenarioAB
    /\ ~cancel_called
    /\ pc = "returned"
    /\ outcome[1] = "failure"
    /\ tasks[2].status = SKIPPED

\* ids in the order in which the loop of install_all took them
Priority(i) == tasks[i].package.priority

\* i is processed before j: smaller priority value, or the same priority and
\* earlier in the input (ids are input positions)
Before(i, j) == Priority(i) < Priority(j) \/ (Priority(i) = Priority(j) /\ i < j)

PrioritiesOf(pk) == [k \in 1..Len(pk) |-> pk[k].priority]

\* C5: packages are gate-checked and submitted (or, sequentially, installed)
\* in ascending priority value, equal priorities in input order; input
\* priorities [LOW, CRITICAL, NORMAL] are taken in the order 2, 3, 1
C5_PriorityOrderStable ==
    /\ \A a \in 1..Len(order), b \in 1..Len(order) :
          a < b => Before(order[a], order[b])
    /\ \A a \in 1..Len(order), j \in DOMAIN tasks :
          j \notin Range(order) => Before(order[a], j)
    /\ (/\ PrioritiesOf(packages) = <<LOW_PRIORITY, CRITICAL_PRIORITY, NORMAL_PRIORITY>>
        /\ Len(order) = 3) => order = <<2, 3, 1>>

C5_Witness ==
    /\ parallel
    /\ PrioritiesOf(packages) = <<LOW_PRIORITY, CRITICAL_PRIORITY, NORMAL_PRIORITY>>
    /\ order = <<2, 3, 1>>
    /\ futures = {1, 2, 3}

InstallingIds == {i \in DOMAIN tasks : tasks[i].status = INSTALLING}

\* C6 (as claimed): in a parallel run the number of tasks whose status is
\* INSTALLING is at most min(requested max_workers, 4)
C6_InstallingWithinPool ==
    parallel => Cardinality(InstallingIds) <= Min(requested, MAX_WORKERS)

NoDependencies == \A i \in DOMAIN tasks : tasks[i].package.dependencies = <<>>

\* C7 (as claimed): when the adapter failed for every package of a batch
\* without dependencies (stop_on_error false, no cancel), install_all returns
\* normally with every task FAILED, failed = total_packages, completed = 0,
\* skipped = 0, in both modes
C7_AllFailedReturnsNormally ==
    (/\ pc \in {"returned", "raised"}
     /\ DOMAIN tasks # {}
     /\ NoDependencies
     /\ ~stop_on_error
     /\ ~cancel_called
     /\ \A i \in DOMAIN tasks : outcome[i] = "failure")
    => /\ pc = "returned"
       /\ \A i \in DOMAIN tasks : tasks[i].status = FAILED
       /\ session.failed = session.total_packages
       /\ session.completed = 0
       /\ session.skipped = 0

\* _install_package is over for the task
Finished(i) == step[i] \in {"returned", "raised"}

\* C8 (as claimed): an exception raised while a task executes leaves the task
\* FAILED, does not escape _install_package (neither to the collection loop
\* nor to the caller of install_all)
C8_TaskBoundaryIsBarrier ==
    /\ pc # "raised"
    /\ \A i \in DOMAIN step :
          /\ step[i] # "raised"
          /\ (Finished(i) /\ raises[i] # {}) => tasks[i].status = FAILED

\* the terminal status of the task with a callback that does not raise
StatusWithQuietCallback(i) ==
    IF outcome[i] \in {"success", "already"} /\ "post" \notin raises[i] THEN SUCCESS ELSE FAILED

\* C9 (as claimed): a raising progress callback is swallowed: install_all does
\* not raise, and the task ends in the status it would have had with a
\* callback that does not raise
C9_RaisingCallbackSwallowed ==
    /\ pc # "raised"
    /\ \A i \in DOMAIN step :
          (Finished(i) /\ "callback" \in raises[i]) =>
             tasks[i].status = StatusWithQuietCallback(i)

\* C10 (as claimed): once the dispatch loop or the collection loop has read
\* the stop flag as set, no task changes from PENDING to INSTALLING
C10_NoStartAfterStopObserved ==
    [][observed =>
          \A i \in DOMAIN tasks :
             ~(/\ i \in DOMAIN tasks'
               /\ tasks[i].status = PENDING
               /\ tasks'[i].status = INSTALLING)]_vars

\* the statuses the adapter's result stands for
DeterminedBy(r) ==
    CASE r = "success" -> {SUCCESS}
      [] r = "already" -> {SUCCESS, SKIPPED}
      [] r = "failure" -> {FAILED}
      [] OTHER -> {}

\* C11 (as claimed): a task that was INSTALLING when cancel() was called and
\* whose adapter call returned has, when install_all returns, the terminal
\* status its adapter outcome determines
C11_InFlightReachOutcome ==
    (pc = "returned") =>
       \A i \in in_flight :
          outcome[i] # "none" => tasks[i].status \in DeterminedBy(outcome[i])

AdapterSucceeded(i) == outcome[i] \in {"success", "already"}

\* C12 (as claimed): when the adapter reported success or already-installed,
\* no failure of a post-install action makes the task FAILED: with a progress
\* callback that never raised, the task ends SUCCESS (or SKIPPED)
C12_PostInstallNeverFails ==
    \A i \in DOMAIN step :
       (Finished(i) /\ AdapterSucceeded(i) /\ "callback" \notin raises[i]) =>
          tasks[i].status \in {SUCCESS, SKIPPED}

\* C13 (as claimed): an install_all call that returns has invoked
\* hot_refresh_environment exactly once, and at that moment (the step that
\* returns; tasks do not change afterwards) no worker executes a task and no
\* task is INSTALLING
C13_OneRefreshAfterDrain ==
    (pc = "returned") =>
       /\ hot_refreshes = 1
       /\ RunningIds = {}
       /\ \A i \in DOMAIN tasks : tasks[i].status # INSTALLING

\* the edges of the claimed task state machine
AllowedEdges ==
    {<<PENDING, INSTALLING>>, <<PENDING, SKIPPED>>, <<INSTALLING, SUCCESS>>,
     <<INSTALLING, FAILED>>, <<INSTALLING, SKIPPED>>}

\* C14 (as claimed, already with no progress callback set): every change of a
\* task's status is one of the allowed edges (or leads to CANCELLED after
\* cancel()), so a SUCCESS, FAILED, SKIPPED or CANCELLED task never changes
C14_StatusStateMachine ==
    [][progress_callback = "none" =>
          \A i \in DOMAIN tasks :
             (i \in DOMAIN tasks' /\ tasks'[i].status # tasks[i].status) =>
                \/ <<tasks[i].status, tasks'[i].status>> \in AllowedEdges
                \/ (tasks'[i].status = CANCELLED /\ cancel_called)]_vars

\* the session counters as <<completed, failed, skipped>>
Counters(sess) == <<sess.completed, sess.failed, sess.skipped>>

\* the counters of a batch of one task that ended in the given status
CountersFor(status) ==
    CASE status = SUCCESS -> <<1, 0, 0>>
      [] status = FAILED -> <<0, 1, 0>>
      [] status = SKIPPED -> <<0, 0, 1>>
      [] OTHER -> <<0, 0, 0>>

\* C15: install_all on a single package whose adapter reports
\* already-installed, no cancel(): at return the task is SUCCESS, FAILED or
\* SKIPPED, the counter of that status is 1 and the other two are 0
C15_AlreadyInstalledCounted ==
    (/\ pc = "returned"
     /\ Len(packages) = 1
     /\ outcome[1] = "already"
     /\ ~cancel_called)
    => /\ tasks[1].status \in {SUCCESS, FAILED, SKIPPED}
       /\ Counters(session) = CountersFor(tasks[1].status)

C15_Witness ==
    /\ pc = "returned"
    /\ Len(packages) = 1
    /\ outcome[1] = "already"
    /\ ~cancel_called
    /\ tasks[1].status = SUCCESS
    /\ Counters(session) = <<1, 0, 0>>

TerminalStatuses == {SUCCESS, FAILED, SKIPPED, CANCELLED}

\* C16 (as claimed, already with no progress callback and no cancel()): when
\* a parallel run with stop_on_error was stopped by a failed task, every
\* task that had been submitted to the pool is in a terminal status at return
C16_DispatchedTasksFinish ==
    (/\ pc = "returned"
     /\ parallel
     /\ error_stop
     /\ ~cancel_called
     /\ progress_callback = "none")
    => \A i \in futures : tasks[i].status \in TerminalStatuses

\* the task of the k-th package in priority order
TaskAt(k) == tasks[sorted_packages[k].id]

\* positions of the priority order whose task is FAILED
FailedPositions == {k \in 1..Len(sorted_packages) : TaskAt(k).status = FAILED}

\* C17: in sequential mode with stop_on_error, every package behind a FAILED
\* task in the priority order stays PENDING and its adapter is never invoked;
\* when install_all returns after such a failure, the counters sum to the
\* position of the failed task
C17_SequentialStopsAtFailure ==
    (session.exists /\ ~parallel /\ stop_on_error) =>
       /\ \A k \in FailedPositions : \A j \in (k + 1)..Len(sorted_packages) :
             /\ TaskAt(j).status = PENDING
             /\ outcome[sorted_packages[j].id] = "none"
             /\ step[sorted_packages[j].id] = "none"
       /\ (pc = "returned" /\ FailedPositions # {}) =>
             \A k \in FailedPositions : Total(session) = k

C17_Witness ==
    /\ pc = "returned"
    /\ ~parallel
    /\ stop_on_error
    /\ ~cancel_called
    /\ Len(sorted_packages) = 2
    /\ TaskAt(1).status = FAILED
    /\ outcome[sorted_packages[1].id] = "failure"
    /\ TaskAt(2).status = PENDING
    /\ Total(session) = 1

\* C18 (as claimed, already with no progress callback, no cancel() and no
\* stop_on_error): in a sequential run a package with a dependency whose
\* task never became SUCCESS is SKIPPED and its adapter is never invoked
C18_SequentialGate ==
    (/\ pc = "returned"
     /\ ~parallel
     /\ ~stop_on_error
     /\ ~cancel_called
     /\ progress_callback = "none")
    => \A i \in DOMAIN tasks :
          HasUnmetPresentDependency(tasks[i].package) =>
             /\ tasks[i].status = SKIPPED
             /\ outcome[i] = "none"

\* C19: the step that creates the session builds one PENDING task per
\* package of the list (ids are unique: as many tasks as total_packages, each
\* holding its package); and install_all on an empty list never raises, has
\* total_packages = 0, leaves every counter 0 and invokes no adapter
C19_SessionPerDescriptorEmptyNoOp ==
    /\ [][(~session.exists /\ session'.exists) =>
             /\ session'.total_packages = Len(packages')
             /\ Cardinality(DOMAIN tasks') = session'.total_packages
             /\ Counters(session') = <<0, 0, 0>>
             /\ \A k \in 1..Len(packages') :
                   /\ packages'[k].id \in DOMAIN tasks'
                   /\ tasks'[packages'[k].id] = InstallTask(packages'[k])
                   /\ tasks'[packages'[k].id].status = PENDING]_vars
    /\ []((session.exists /\ packages = <<>>) =>
             /\ pc # "raised"
             /\ session.total_packages = 0
             /\ Counters(session) = <<0, 0, 0>>
             /\ DOMAIN tasks = {}
             /\ futures = {}
             /\ DOMAIN outcome = {})

C19_Witness ==
    /\ pc = "returned"
    /\ packages = <<>>
    /\ session.exists
    /\ session.total_packages = 0
    /\ Counters(session) = <<0, 0, 0>>
    /\ hot_refreshes = 1

\* C20 (as claimed): load_config_file(generate_config_file(packages)) returns
\* descriptors equal to the originals in every field
C20_ConfigRoundTrip ==
    loaded.done => loaded.packages = descriptors

\* C21: the document written for the list loaded from a config file is the
\* document that was loaded: dump(load(dump(packages))) = dump(packages)
C21_DumpLoadDump ==
    (config_again # NoFile) => config_again = config_file

C21_Witness ==
    /\ config_again # NoFile
    /\ config_again = config_file
    /\ Len(descriptors) = 2
    /\ descriptors[1].priority = "LOW"
    /\ descriptors[1].source = "winget"
    /\ descriptors[2].version = "1.0"
    /\ loaded.packages # descriptors

\* the entries of PATH that are the path, letter case ignored
Occurrences(path) == {k \in 1..Len(user_path) : lower(user_path[k]) = lower(path)}

\* the call read PATH as it was and returned True
CallWorked(call) == call.returned /\ call.current = call.before

\* C22 (as claimed, already for calls whose reads and writes of PATH all
\* worked): after two append_to_path calls with the same path, or with two
\* paths that differ only in letter case, PATH holds exactly one occurrence
\* of the path and the second call left PATH unchanged
C22_AppendToPathIdempotent ==
    (/\ Len(appended) = 2
     /\ lower(appended[1].path) = lower(appended[2].path)
     /\ CallWorked(appended[1])
     /\ CallWorked(appended[2])) =>
       /\ Cardinality(Occurrences(appended[1].path)) = 1
       /\ user_path = appended[2].before

\* the session as create_session builds it from the list of the call
SessionFromCall ==
    /\ session.exists
    /\ session.total_packages = Len(packages)
    /\ \A j \in 1..Len(packages) : packages[j].id \in DOMAIN tasks
    /\ \A i \in DOMAIN tasks : tasks[i].status = PENDING
    /\ session.completed = 0 /\ session.failed = 0 /\ session.skipped = 0

\* C23: every call of install_all on a BatchInstaller works on a session built
\* from the packages of that call: when the call has chosen its mode,
\* total_packages is the length of its list, every package of the list has a
\* task, every task is PENDING and the counters are 0
C23_SessionPerCall ==
    [][(pc \in {"idle", "returned"} /\ pc' \in {"dispatch", "sequential"}) => SessionFromCall']_vars


\* the task was executed: _install_package set its start_time and INSTALLING
ReachedInstalling(i) == i \in DOMAIN tasks /\ tasks[i].start_time

\* the adapter was invoked for the task (and returned)
AdapterInvoked(i) == outcome[i] # "none"

\* C24: when install_all has returned, the adapter was invoked for every task
\* that reached INSTALLING and for no other task, and in every state every
\* task's retry_count is at most RETRY_COUNT
C24_OneAttemptPerTask ==
    /\ \A i \in DOMAIN tasks : tasks[i].retry_count <= RETRY_COUNT
    /\ (pc = "returned") =>
          \A i \in DOMAIN tasks : ReachedInstalling(i) <=> AdapterInvoked(i)


\* the dependency is unmet: it has no task in the session, or its task is not SUCCESS
Unmet(dep_id) == dep_id \notin DOMAIN tasks \/ tasks[dep_id].status # SUCCESS

\* the unmet ids of a dependency list, in the order of the list
RECURSIVE UnmetOf(_)
UnmetOf(deps) ==
    IF deps = <<>> THEN <<>>
    ELSE (IF Unmet(Head(deps)) THEN <<Head(deps)>> ELSE <<>>) \o UnmetOf(Tail(deps))

\* C25: when the dispatch loop skips a package at the dependency gate, the
\* ids in the task's error message are exactly the package's unmet
\* dependencies (absent from the session or not SUCCESS at that instant), in
\* the order of its dependency list
C25_GateMessageListsUnmet ==
    [][(pc = "dispatch" /\ skipped_count' = skipped_count + 1) =>
          LET package == sorted_packages[idx]
          IN  tasks'[package.id].error_message =
                 [kind |-> "deps", ids |-> UnmetOf(package.dependencies)]]_vars


\* package i lists package j among its dependencies
DependsOn(i, j) == j \in Range(tasks[i].package.dependencies)

\* j is reached from i along at most n dependency edges
RECURSIVE ReachIn(_, _, _)
ReachIn(i, j, n) ==
    /\ n > 0
    /\ \/ DependsOn(i, j)
       \/ \E k \in DOMAIN tasks : DependsOn(i, k) /\ ReachIn(k, j, n - 1)

\* the package is on a cycle of the dependency graph of the session
InCycle(i) == ReachIn(i, i, Cardinality(DOMAIN tasks))

\* C26: when install_all has returned (as claimed in every run; already in
\* the runs in which cancel() was never called), every package on a
\* dependency cycle is SKIPPED and was never handed to _install_package
C26_CycleMembersSkipped ==
    (pc = "returned" /\ ~cancel_called) =>
       \A i \in DOMAIN tasks :
          InCycle(i) => tasks[i].status = SKIPPED /\ ~tasks[i].start_time


\* a pool worker takes a step of _install_package for task i: the future of i
\* moves on, and not by being cancelled
WorkerStep(i) ==
    /\ parallel
    /\ step[i] \in {"queued"} \cup Running
    /\ step'[i] # step[i]
    /\ step'[i] # "cancelled"

\* C27: a worker step for task i leaves every other task as it was and leaves
\* the session counters, the loop's counters and the stop event unchanged; the
\* session counters change only when the calling thread enters or leaves
\* install_all, and the stop event only in cancel() or in the collection loop
C27_WorkerWritesOwnTask ==
    [][/\ \A i \in DOMAIN step :
             WorkerStep(i) =>
                /\ \A j \in DOMAIN tasks \ {i} : tasks'[j] = tasks[j]
                /\ session' = session
                /\ UNCHANGED counts
                /\ stop_event' = stop_event
       /\ (session' # session) => pc' \in {"dispatch", "sequential", "returned"}
       /\ (stop_event' # stop_event) => (cancel_called' # cancel_called \/ pc = "collect")]_vars

\* two tasks in parallel mode: a worker has brought one to SUCCESS while the
\* other is still queued and PENDING, and no counter has been written
C27_Witness ==
    /\ parallel
    /\ pc \in {"dispatch", "collect"}
    /\ \E i, j \in DOMAIN tasks :
          /\ i # j
          /\ step[i] = "returned" /\ tasks[i].status = SUCCESS
          /\ step[j] = "queued" /\ tasks[j].status = PENDING
    /\ session.completed = 0
    /\ completed_count = 0


\* C28: when install_all has returned (as claimed on every path; already with
\* no progress callback set), every task that was executed has start_time and
\* end_time set, progress 100 when it is SUCCESS and progress 0 when it is FAILED
C28_ExecutedTasksStamped ==
    (pc = "returned" /\ progress_callback = "none") =>
       \A i \in DOMAIN tasks :
          ReachedInstalling(i) =>
             /\ tasks[i].end_time
             /\ (tasks[i].status = SUCCESS) => tasks[i].progress = 100
             /\ (tasks[i].status = FAILED) => tasks[i].progress = 0


\* C29: when install_all has returned, no task of the session is INSTALLING
\* and no worker is still running or queued
C29_NothingInstallingAtReturn ==
    (pc = "returned") =>
       /\ \A i \in DOMAIN tasks : tasks[i].status # INSTALLING
       /\ RunningIds = {}
       /\ \A i \in DOMAIN step : step[i] # "queued"


\* C30: under fair scheduling, with every adapter invocation and post-install
\* action returning, a call of install_all eventually returns
C30_InstallAllReturns == (pc # "idle") ~> (pc = "returned")


\* package i of the running call has no dependencies
Independent(i) ==
    /\ pc # "idle"
    /\ i \in DOMAIN tasks
    /\ tasks[i].package.dependencies = <<>>

\* C31: in a run with stop_on_error false, every package without
\* dependencies is eventually executed (as claimed, and then reaches a
\* terminal status; already the execution itself), unless cancel() is called
C31_IndependentTasksAttempted ==
    \A i \in 1..MaxPkgs :
       (Independent(i) /\ ~stop_on_error) ~> (cancel_called \/ ReachedInstalling(i))


\* no call of the progress callback raised
QuietCallback == \A i \in DOMAIN raises : "callback" \notin raises[i]

\* C32: when install_all has returned with a progress callback set (as
\* claimed; already when no call of the callback raised), the status last
\* passed to the callback for a task that left PENDING is the task's status
C32_CallbackSeesFinalStatus ==
    (pc = "returned" /\ progress_callback = "set" /\ QuietCallback) =>
       \A i \in DOMAIN tasks :
          (tasks[i].status # PENDING) => reported[i] = tasks[i].status


\* the number of tasks of the session in the given status
TasksIn(status) == Cardinality({i \in DOMAIN tasks : tasks[i].status = status})

\* C33: when install_all has returned from a run without cancellation (the
\* stop event was set neither by cancel() nor by stop_on_error) in which no
\* call of the callback raised, completed is the number of SUCCESS tasks,
\* failed the number of FAILED tasks and skipped the number of SKIPPED tasks
C33_CountersMatchStatuses ==
    (pc = "returned" /\ ~stop_event /\ QuietCallback) =>
       Counters(session) = <<TasksIn(SUCCESS), TasksIn(FAILED), TasksIn(SKIPPED)>>

\* a returned run of two packages without cancellation and with a quiet
\* callback: one task SUCCESS, the other SKIPPED at the gate
C33_Witness ==
    /\ pc = "returned"
    /\ ~stop_event
    /\ progress_callback = "set"
    /\ QuietCallback
    /\ Len(packages) = 2
    /\ TasksIn(SUCCESS) = 1
    /\ TasksIn(SKIPPED) = 1
    /\ Counters(session) = <<1, 0, 1>>


\* C34: when a parallel install_all has returned (as claimed also after an
\* early stop; already with no progress callback set), completed + failed +
\* skipped is the number of tasks that are SUCCESS, FAILED or SKIPPED
C34_TerminalTasksCounted ==
    (pc = "returned" /\ parallel /\ progress_callback = "none") =>
       session.completed + session.failed + session.skipped =
          TasksIn(SUCCESS) + TasksIn(FAILED) + TasksIn(SKIPPED)


\* C35: on a BatchInstaller whose earlier run was stopped (a loop of that run
\* read the stop event as set, or stop_on_error set it), the stop event is
\* clear when the next run of install_all starts on a non-empty list
C35_StopFlagClearAtStart ==
    [][(/\ pc = "returned"
        /\ observed \/ error_stop
        /\ pc' \in {"dispatch", "sequential"}
        /\ Len(packages') > 0) => ~stop_event']_vars


\* package 1 (A) has no dependencies, package 2 (B) depends only on A and is
\* sorted after A
ChainAB ==
    /\ Len(packages) = 2
    /\ packages[1].dependencies = <<>>
    /\ packages[2].dependencies = <<1>>
    /\ sorted_packages[1].id = 1

\* C36: when a parallel install_all on A and B has returned without cancel()
\* and A's adapter succeeded (A is SUCCESS), B was dispatched and is not SKIPPED
C36_DependentDispatchedAfterSuccess ==
    (/\ pc = "returned"
     /\ parallel
     /\ ~cancel_called
     /\ progress_callback = "none"
     /\ ChainAB
     /\ tasks[1].status = SUCCESS) =>
       /\ ReachedInstalling(2)
       /\ tasks[2].status # SKIPPED


\* the two runs had the same adapter outcomes: a package whose adapter was
\* invoked in both got the same result and the same post-install exception
SameOutcomes ==
    \A i \in DOMAIN outcome :
       (outcome[i] # "none" /\ first_run.outcome[i] # "none") =>
          (outcome[i] = first_run.outcome[i] /\ raises[i] = first_run.raises[i])

\* the second run ended as the first: every task's status and the counters
SameResult ==
    /\ \A i \in DOMAIN tasks : tasks[i].status = first_run.status[i]
    /\ Counters(session) = <<first_run.completed, first_run.failed, first_run.skipped>>

\* both runs have returned, with stop_on_error false, on the same list
BothReturned ==
    /\ pc = "returned"
    /\ first_run.done
    /\ ~stop_on_error
    /\ ~first_run.stop_on_error

\* C37: two parallel runs of the same package list with the same adapter
\* outcomes, no cancel() and stop_on_error false end with the same status of
\* every task and the same counters
C37_ParallelOutcomeDeterministic ==
    (BothReturned /\ first_run.parallel /\ parallel /\ SameOutcomes) => SameResult


\* C38: a parallel and a sequential run of the same package list with the
\* same adapter outcomes, no cancel() and stop_on_error false end with the
\* same status of every task and the same counters
C38_ParallelEqualsSequential ==
    (BothReturned /\ first_run.parallel # parallel /\ SameOutcomes) => SameResult


\* both workers' append_to_path calls read PATH as it was and returned True
BothAppended ==
    \A w \in DOMAIN appending :
       /\ appending[w].state = "done"
       /\ appending[w].read_ok
       /\ appending[w].returned

\* C39: when two workers have each appended a path of their own and both
\* calls succeeded, PATH contains both paths
C39_ConcurrentAppendsKept ==
    (DOMAIN appending # {} /\ BothAppended) =>
       \A w \in DOMAIN appending : in_path(appending[w].path_to_add, user_path)


\* C40: recovery is bounded.  After any sequence of handle_error calls on one
\* InstallationError its retry_count never exceeds max_retries, the recovery
\* handler has been invoked at most max_retries times, a call made when
\* retry_count equals max_retries returns False without invoking the handler,
\* and a call whose handler raises returns False with no exception leaving
\* handle_error.
HandlerInvocations == Cardinality({k \in DOMAIN handled : handled[k].invoked})

C40_RecoveryBounded ==
    /\ error.retry_count <= error.max_retries
    /\ HandlerInvocations <= error.max_retries
    /\ \A k \in DOMAIN handled :
          /\ handled[k].before = error.max_retries
                => (~handled[k].invoked /\ ~handled[k].returned)
          /\ (handled[k].invoked /\ handled[k].behaviour = "raise")
                => (~handled[k].returned /\ ~handled[k].raised)
          /\ ~handled[k].raised

\* The handler was invoked max_retries times, once raising, and a later call
\* with auto_recover on a recoverable error was refused.
C40_Witness ==
    /\ HandlerInvocations = error.max_retries
    /\ \E k \in DOMAIN handled : handled[k].invoked /\ handled[k].behaviour = "raise"
    /\ \E k \in DOMAIN handled :
          /\ handled[k].before = error.max_retries
          /\ handled[k].auto_recover
          /\ error.recoverable
          /\ error_handlers

TypeOK ==
    /\ pc \in {"idle", "dispatch", "collect", "join", "sequential", "installing",
               "finish", "returned", "raised", "unwind"}
    /\ \A i \in DOMAIN tasks : tasks[i].status \in InstallStatus

====
